---- MODULE Spec2Model ----
(***************************************************************************)
(* Model of the instrument data parser (InstrumentDataParser) and of the   *)
(* dataframe exporter of darts_fair_workflows.                              *)
(*                                                                          *)
(* Text is modelled as a sequence of one-character strings, so that the     *)
(* Python string operations the parser uses (endswith, split, strip,        *)
(* replace) are computed character by character as Python computes them.    *)
(***************************************************************************)
EXTENDS Naturals, Sequences, FiniteSets

\* ------------------------------------------------------------------ bounds

\* The largest number of files present in the walked folders.
MaxFiles == 3

\* ------------------------------------------------------- Python str methods

\* s.endswith(suffix)
EndsWith(s, suffix) ==
    /\ Len(s) >= Len(suffix)
    /\ SubSeq(s, Len(s) - Len(suffix) + 1, Len(s)) = suffix

\* s.startswith(prefix), the test str.replace makes at each position
StartsWith(s, prefix) ==
    /\ Len(s) >= Len(prefix)
    /\ SubSeq(s, 1, Len(prefix)) = prefix

\* s.split(ch) for a one-character separator: every occurrence splits, empty
\* pieces are kept.
RECURSIVE Split(_, _)
Split(s, ch) ==
    IF \A i \in 1..Len(s) : s[i] # ch
    THEN <<s>>
    ELSE LET i == CHOOSE k \in 1..Len(s) :
                      s[k] = ch /\ \A j \in 1..(k - 1) : s[j] # ch
         IN  <<SubSeq(s, 1, i - 1)>> \o Split(SubSeq(s, i + 1, Len(s)), ch)

\* seq[0]
First(seq) == seq[1]

\* seq[-1]
Last(seq) == seq[Len(seq)]

\* s.lstrip(chars): drops leading characters that belong to the set chars.
RECURSIVE LStrip(_, _)
LStrip(s, chars) ==
    IF s # <<>> /\ s[1] \in chars THEN LStrip(Tail(s), chars) ELSE s

\* s.rstrip(chars)
RECURSIVE RStrip(_, _)
RStrip(s, chars) ==
    IF s # <<>> /\ s[Len(s)] \in chars
    THEN RStrip(SubSeq(s, 1, Len(s) - 1), chars)
    ELSE s

\* s.strip(chars): the argument is a SET of characters, not a suffix.
Strip(s, chars) == RStrip(LStrip(s, chars), chars)

\* The characters s.strip() without argument removes.
Whitespace == {" "}

\* s.replace(old, new): every non-overlapping occurrence, left to right.
RECURSIVE Replace(_, _, _)
Replace(s, old, new) ==
    IF s = <<>> THEN <<>>
    ELSE IF StartsWith(s, old)
         THEN new \o Replace(SubSeq(s, Len(old) + 1, Len(s)), old, new)
         ELSE <<s[1]>> \o Replace(Tail(s), old, new)

\* ------------------------------------------------------------------- values

\* Builds a mapping (a Python dict) from a set of keys.
Update(d1, d2) ==
    [k \in (DOMAIN d1) \cup (DOMAIN d2) |->
        IF k \in DOMAIN d2 THEN d2[k] ELSE d1[k]]

\* A table cell: a text (str), a byte buffer (bytes), a numeric array
\* (numpy.ndarray), an integer (int) or a missing value (NaN).
StrCell(text) == [k |-> "str", v |-> text]
BytesCell == [k |-> "bytes", v |-> <<>>]
ArrayCell == [k |-> "ndarray", v |-> <<>>]
NaN == [k |-> "nan", v |-> <<>>]
Digits == <<"0", "1", "2", "3", "4", "5", "6", "7", "8", "9">>
IntCell(n) == [k |-> "int", v |-> <<Digits[n + 1]>>]

\* ------------------------------------------------------------- environment

\* The files that may be present under the configured folders, in the order
\* os.walk lists them: dir is the folder, name the file name; options are
\* what reading the file can give: raises (an extractor raises for it), exif
\* (the tag/value mapping of an image) and content (the header lines of a raw
\* measurement file, each a key and the rest of the line).
ElFolder == <<"e", "l">>
IvFolder == <<"i", "v">>
NoTags == <<>>
MakeTag == [t \in {"Image Make"} |-> <<"x">>]
ImageOptions ==
    { [raises |-> TRUE, exif |-> NoTags, content |-> <<>>],
      [raises |-> FALSE, exif |-> NoTags, content |-> <<>>],
      [raises |-> FALSE, exif |-> MakeTag, content |-> <<>>] }
OperatorLine == [key |-> "Operator", text |-> <<"=", "\"", "x", "\"">>]
BlankLine == [key |-> "Operator", text |-> <<"=", "\"", " ", "\"">>]
JunkLine == [key |-> "Sinton", text |-> <<" ", "F", "M", "T">>]
RawOptions ==
    { [raises |-> TRUE, exif |-> NoTags, content |-> <<>>],
      [raises |-> FALSE, exif |-> NoTags, content |-> <<JunkLine>>],
      [raises |-> FALSE, exif |-> NoTags, content |-> <<JunkLine, OperatorLine>>],
      [raises |-> FALSE, exif |-> NoTags, content |-> <<BlankLine>>] }
TextOptions == { [raises |-> FALSE, exif |-> NoTags, content |-> <<>>] }
TiffOptions == { [raises |-> FALSE, exif |-> MakeTag, content |-> <<>>] }
Catalogue ==
    << [dir |-> ElFolder, name |-> <<"a", ".", "j", "p", "g">>, options |-> ImageOptions],
       [dir |-> ElFolder, name |-> <<"b", ".", "j", "p", "g">>, options |-> ImageOptions],
       [dir |-> ElFolder, name |-> <<"c", ".", "t", "i", "f">>, options |-> TiffOptions],
       [dir |-> IvFolder, name |-> <<"a", ".", "m", "f", "r">>, options |-> RawOptions],
       [dir |-> IvFolder, name |-> <<"m", "a", ".", "m", "f", "r">>, options |-> RawOptions],
       [dir |-> IvFolder, name |-> <<"a", ".", "t", "x", "t">>, options |-> TextOptions],
       [dir |-> IvFolder, name |-> <<"m", "a", ".", "t", "x", "t">>, options |-> TextOptions] >>

AllOptions == ImageOptions \cup TiffOptions \cup RawOptions \cup TextOptions

\* The choices of which catalogue files are present and what each holds.
Choices ==
    UNION { { f \in [S -> AllOptions] : \A i \in S : f[i] \in Catalogue[i].options } :
            S \in { T \in SUBSET (1..Len(Catalogue)) : Cardinality(T) <= MaxFiles } }

\* The directory listing of a choice: the present files in catalogue order.
RECURSIVE Listing(_, _)
Listing(f, i) ==
    IF i > Len(Catalogue) THEN <<>>
    ELSE (IF i \in DOMAIN f
          THEN << [dir |-> Catalogue[i].dir, name |-> Catalogue[i].name,
                   raises |-> f[i].raises, exif |-> f[i].exif,
                   content |-> f[i].content] >>
          ELSE <<>>) \o Listing(f, i + 1)

\* os.sep: the path separator of the platform the program runs on.
Separators == {"\\", "/"}

VARIABLES
    sep,            \* os.sep of the platform
    tree,           \* the files under the configured folders, in walk order
    parser,         \* the fields of the InstrumentDataParser instance
    pc,             \* "idle", or the parse operation in progress
    files,          \* el_filepaths / mfr_filepaths of the call in progress
    txt_filenames,  \* txt_filenames of the call in progress
    index,          \* the loop index (files processed so far)
    frames,         \* the running table
    failed_files,   \* the local failure list
    ret,            \* the last value each parse operation returned
    prev,           \* the value each parse operation returned before that
    extracted,      \* the last direct call of extract_image_metadata
    viewable,       \* the last result of create_viewable_dataframe
    exported        \* the outcome of the last run of the exporter's main()

vars == <<sep, tree, parser, pc, files, txt_filenames, index, frames,
          failed_files, ret, prev, extracted, viewable, exported>>

\* os.path.join(dirpath, filename)
PathJoin(dirpath, filename) == dirpath \o <<sep>> \o filename

\* InstrumentDataParser.arrays
Arrays ==
    {"isc_array_raw", "isc_array_interp", "intensity_array", "voc_array_raw",
     "voc_array_interp", "vload_array", "vload_array_interp"}

\* InstrumentDataParser.__init__
NewParser(folder_locations, sqlite_file_path) ==
    [folder_locations |-> folder_locations,
     sqlite_file_path |-> sqlite_file_path,
     failed_files |-> <<>>,
     arrays |-> Arrays]

FolderLocations == <<ElFolder, IvFolder>>
SqliteFilePath == <<"d", "b">>

\* get_files_from_folders: for each folder, for each file os.walk lists under
\* it whose name ends with "." + filetype, the name up to its first "."
\* (filename_only) or the joined path.
RECURSIVE WalkFolder(_, _, _, _)
WalkFolder(listing, folder, filetype, filename_only) ==
    IF listing = <<>> THEN <<>>
    ELSE LET f == Head(listing)
             hit == f.dir = folder /\ EndsWith(f.name, <<".">> \o filetype)
         IN  (IF hit
              THEN IF filename_only
                   THEN <<First(Split(f.name, "."))>>
                   ELSE <<PathJoin(f.dir, f.name)>>
              ELSE <<>>)
             \o WalkFolder(Tail(listing), folder, filetype, filename_only)

RECURSIVE GetFilesFromFolders(_, _, _)
GetFilesFromFolders(folder_list, filetype, filename_only) ==
    IF folder_list = <<>> THEN <<>>
    ELSE WalkFolder(tree, Head(folder_list), filetype, filename_only)
         \o GetFilesFromFolders(Tail(folder_list), filetype, filename_only)

\* The file a path opens.
FileAt(path) ==
    CHOOSE f \in {tree[i] : i \in 1..Len(tree)} : PathJoin(f.dir, f.name) = path

\* ------------------------------------------------------------------ tables

\* frames = None
NoFrame == [isNone |-> TRUE, cols |-> {}, rows |-> <<>>]

\* pd.DataFrame()
EmptyDataFrame == [isNone |-> FALSE, cols |-> {}, rows |-> <<>>]

\* pd.DataFrame.from_dict(d, orient='index').T and pd.DataFrame([d]): one row,
\* one column per key.
OneRowFrame(d) == [isNone |-> FALSE, cols |-> DOMAIN d, rows |-> <<d>>]

\* A row over a wider column set: the cells it lacks are missing values.
Reindex(row, cols) ==
    [c \in cols |-> IF c \in DOMAIN row THEN row[c] ELSE NaN]

ReindexAll(rows, cols) == [i \in 1..Len(rows) |-> Reindex(rows[i], cols)]

\* A faulty variant of Concat: the running table is replaced, not extended.
ConcatKeepsLast(a, b) == b

\* pd.concat([a, b], ignore_index=True): a None object is dropped silently;
\* the columns are the union, a cell absent from a row is a missing value.
Concat(a, b) ==
    IF a.isNone THEN b
    ELSE LET cols == a.cols \cup b.cols
         IN  [isNone |-> FALSE, cols |-> cols,
              rows |-> ReindexAll(a.rows, cols) \o ReindexAll(b.rows, cols)]

IsNa(cell) == cell.k = "nan"

\* df.loc[:, keep]: the table restricted to the columns keep.
SelectColumns(df, keep) ==
    [isNone |-> FALSE, cols |-> keep,
     rows |-> [i \in 1..Len(df.rows) |-> [c \in keep |-> df.rows[i][c]]]]

\* frames.dropna(axis=1, how='all'): drops the columns missing in every row.
DropNaAll(df) ==
    SelectColumns(df, {c \in df.cols : \E i \in 1..Len(df.rows) : ~IsNa(df.rows[i][c])})

\* A faulty variant of NotNaAll: a column is kept when some row holds a value.
NotNaSome(df) ==
    {c \in df.cols : \E i \in 1..Len(df.rows) : ~IsNa(df.rows[i][c])}

\* frames.notna().all(axis=0): the columns with no missing value in any row.
NotNaAll(df) ==
    {c \in df.cols : \A i \in 1..Len(df.rows) : ~IsNa(df.rows[i][c])}

\* frames[col] = value: the column set to one value in every row.
SetColumn(df, col, value) ==
    [isNone |-> FALSE, cols |-> df.cols \cup {col},
     rows |-> [i \in 1..Len(df.rows) |->
                 [c \in df.cols \cup {col} |->
                     IF c = col THEN value ELSE df.rows[i][c]]]]

\* frames.reset_index(): the row labels 0..n-1 become the column "index".
ResetIndex(df) ==
    [isNone |-> FALSE, cols |-> df.cols \cup {"index"},
     rows |-> [i \in 1..Len(df.rows) |->
                 [c \in df.cols \cup {"index"} |->
                     IF c = "index" THEN IntCell(i - 1) ELSE df.rows[i][c]]]]

\* Series.astype(str) on one cell, as pandas before 3.0 computes it: a text
\* stays, a missing value becomes the text "nan", any other value its str().
AsTypeStr(cell) ==
    IF cell.k = "str" THEN cell
    ELSE IF cell.k = "nan" THEN StrCell(<<"n", "a", "n">>)
    ELSE IF cell.k = "bytes" THEN StrCell(<<"b", "'", "'">>)
    ELSE IF cell.k = "ndarray" THEN StrCell(<<"[", "]">>)
    ELSE StrCell(cell.v)

\* lambda x: float('NaN') if x.strip() == "" else x
BlankToNaN(cell) == IF Strip(cell.v, Whitespace) = <<>> THEN NaN ELSE cell

\* ------------------------------------------------------------- extractors

\* What an extractor call gives: it raised, it returned None, or a mapping.
Raised == [raised |-> TRUE, isNone |-> FALSE, map |-> <<>>]
ReturnedNone == [raised |-> FALSE, isNone |-> TRUE, map |-> <<>>]
Returned(map) == [raised |-> FALSE, isNone |-> FALSE, map |-> map]

\* fm.get_filename_metadata(file, datatype): the fields parsed from the file
\* name, or an error when the name does not follow the naming convention.
GetFilenameMetadata(file, datatype) ==
    IF FileAt(file).raises THEN Raised
    ELSE Returned([k \in {"datatype"} |-> StrCell(datatype)])

\* extract_image_metadata: the EXIF tags of a .jpg, the TIFF tags of a .tif;
\* for any other name no branch is taken and the function returns None.
ExtractImageMetadata(image_file) ==
    IF EndsWith(image_file, <<".", "j", "p", "g">>)
       \/ EndsWith(image_file, <<".", "t", "i", "f">>)
    THEN LET f == FileAt(image_file)
         IN  IF f.raises THEN Raised
             ELSE Returned([t \in DOMAIN f.exif |-> StrCell(f.exif[t])])
    ELSE ReturnedNone

\* SintonFMT_LIB.import_raw_data_from_file, correct_raw_data and
\* interpolate_load_data: the header lines of the file and the interpolated
\* arrays, one numpy array per name of parser.arrays.
ImportRawData(file) ==
    IF FileAt(file).raises THEN Raised
    ELSE Returned([content |-> FileAt(file).content,
                   interpol_data |-> [a \in Arrays |-> ArrayCell]])

\* ------------------------------------------------------ parse_image_metadata

\* file.split('\\')[-1]
FileName(file) == Last(Split(file, "\\"))

\* The try body of parse_image_metadata up to the record: filename metadata,
\* image metadata, exif_data.update(metadata_dict) (an AttributeError when
\* exif_data is None) and the filename field.
ImageRecord(file) ==
    LET metadata_dict == GetFilenameMetadata(file, <<"e", "l">>)
        exif_data == ExtractImageMetadata(file)
    IN  IF metadata_dict.raised \/ exif_data.raised \/ exif_data.isNone
        THEN Raised
        ELSE Returned(Update(Update(exif_data.map, metadata_dict.map),
                             [k \in {"filename"} |-> StrCell(FileName(file))]))

\* One iteration of a parse loop on the record the try body built: the first
\* iteration (index 0) starts the table, the later ones concatenate; an
\* exception appends the file to the failure list and the loop continues.
LoopStep(acc, i, file, record) ==
    IF record.raised
    THEN [frames |-> acc.frames, failed_files |-> Append(acc.failed_files, file)]
    ELSE [frames |-> IF i = 0 THEN OneRowFrame(record.map)
                     ELSE Concat(acc.frames, OneRowFrame(record.map)),
          failed_files |-> acc.failed_files]

\* After the image loop: the columns with a missing value are dropped, the
\* camera label and the index column are added; frames = None gives an empty
\* table.
FinishImage(acc) ==
    IF ~acc.frames.isNone
    THEN LET dropped == DropNaAll(acc.frames)
             kept == SelectColumns(dropped, NotNaAll(dropped))
             labelled == SetColumn(kept, "camera", StrCell(<<"E", "L", "_", "C", "C", "D">>))
         IN  [table |-> ResetIndex(labelled), failed_files |-> acc.failed_files]
    ELSE [table |-> EmptyDataFrame, failed_files |-> acc.failed_files]

\* ------------------------------------------------- parse_sinton_fmt_metadata

\* The dict comprehension over the header lines: a line without "=" is
\* skipped; the key is the text before the first "=", the value the text
\* between the first and the second "=", its quotes removed, stripped.
RECURSIVE HeaderFields(_)
HeaderFields(content) ==
    IF content = <<>> THEN <<>>
    ELSE LET item == Last(content)
             rest == HeaderFields(SubSeq(content, 1, Len(content) - 1))
         IN  IF \E i \in 1..Len(item.text) : item.text[i] = "="
             THEN Update(rest,
                    [k \in {item.key} |->
                        StrCell(Strip(Replace(Split(item.text, "=")[2], <<"\"">>, <<>>),
                                      Whitespace))])
             ELSE rest

\* content['filename'].replace('IVT', '').strip('.mfr') in txt_filenames
HasTxtFile(filename, txts) ==
    \E i \in 1..Len(txts) :
        txts[i] = Strip(Replace(filename, <<"I", "V", "T">>, <<>>), {".", "m", "f", "r"})

\* content['filename'].replace('mfr', 'txt'), or 'N/A'
TxtFile(filename, txts) ==
    IF HasTxtFile(filename, txts)
    THEN Replace(filename, <<"m", "f", "r">>, <<"t", "x", "t">>)
    ELSE <<"N", "/", "A">>

\* The try body of parse_sinton_fmt_metadata up to the record.
SintonRecord(file, txts) ==
    LET imported == ImportRawData(file)
        metadata_dict == GetFilenameMetadata(file, <<"i", "v">>)
    IN  IF imported.raised \/ metadata_dict.raised THEN Raised
        ELSE LET interpol_data == [a \in Arrays |-> BytesCell]
                 content == Update(Update(HeaderFields(imported.map.content),
                                          metadata_dict.map), interpol_data)
                 filename == FileName(file)
             IN  Returned(Update(content,
                    [k \in {"filepath", "filename", "txt_file"} |->
                        IF k = "filepath" THEN StrCell(file)
                        ELSE IF k = "filename" THEN StrCell(filename)
                        ELSE StrCell(TxtFile(filename, txts))]))

\* The loop over non_array_cols: each cell of a column that is not an array
\* column is converted with astype(str), then a blank text becomes missing.
CoerceNonArrays(df, arrays) ==
    [isNone |-> FALSE, cols |-> df.cols,
     rows |-> [i \in 1..Len(df.rows) |->
                 [c \in df.cols |->
                     IF c \in arrays THEN df.rows[i][c]
                     ELSE BlankToNaN(AsTypeStr(df.rows[i][c]))]]]

\* After the raw-file loop.
FinishSinton(acc, arrays) ==
    IF ~acc.frames.isNone
    THEN LET coerced == CoerceNonArrays(acc.frames, arrays)
             kept == SelectColumns(coerced, NotNaAll(coerced))
         IN  [table |-> ResetIndex(kept), failed_files |-> acc.failed_files]
    ELSE [table |-> EmptyDataFrame, failed_files |-> acc.failed_files]

\* -------------------------------------------------------------- the parser

\* A faulty variant of NewFailureList: the list of the previous call is kept.
KeptFailureList(left) == left

\* failed_files = []: a call starts with a fresh local list, whatever list
\* the previous call left behind.
NewFailureList(left) == <<>>

NotReturned == [returned |-> FALSE, table |-> EmptyDataFrame, failed_files |-> <<>>]
ReturnedPair(r) == [returned |-> TRUE, table |-> r.table, failed_files |-> r.failed_files]

Init ==
    /\ sep \in Separators
    /\ tree \in {Listing(f, 1) : f \in Choices}
    /\ parser = NewParser(FolderLocations, SqliteFilePath)
    /\ pc = "idle"
    /\ files = <<>>
    /\ txt_filenames = <<>>
    /\ index = 0
    /\ frames = NoFrame
    /\ failed_files = <<>>
    /\ ret = [image |-> NotReturned, sinton |-> NotReturned]
    /\ prev = [image |-> NotReturned, sinton |-> NotReturned]
    /\ extracted = [called |-> FALSE, file |-> <<>>, result |-> ReturnedNone]
    /\ viewable = [called |-> FALSE, table |-> EmptyDataFrame]
    /\ exported = [called |-> FALSE, outcome |-> "none", written |-> <<>>,
                   formatted |-> <<>>]

\* parse_image_metadata, up to its loop.
ParseImageStart ==
    /\ pc = "idle"
    /\ pc' = "image"
    /\ failed_files' = NewFailureList(failed_files)
    /\ files' = GetFilesFromFolders(parser.folder_locations, <<"j", "p", "g">>, FALSE)
    /\ txt_filenames' = <<>>
    /\ frames' = NoFrame
    /\ index' = 0
    /\ UNCHANGED <<sep, tree, parser, ret, prev, extracted, viewable, exported>>

\* One iteration of the loop of parse_image_metadata.
ParseImageFile ==
    /\ pc = "image"
    /\ index < Len(files)
    /\ LET file == files[index + 1]
           acc == LoopStep([frames |-> frames, failed_files |-> failed_files],
                           index, file, ImageRecord(file))
       IN  /\ frames' = acc.frames
           /\ failed_files' = acc.failed_files
    /\ index' = index + 1
    /\ UNCHANGED <<sep, tree, parser, pc, files, txt_filenames, ret, prev,
                   extracted, viewable, exported>>

\* A faulty variant of ParseImageReturn: the failure list is also stored in the
\* instance's failed_files field.
ParseImageReturnStoring ==
    /\ pc = "image"
    /\ index = Len(files)
    /\ ret' = [ret EXCEPT !.image =
                 ReturnedPair(FinishImage([frames |-> frames, failed_files |-> failed_files]))]
    /\ prev' = [prev EXCEPT !.image = ret.image]
    /\ pc' = "idle"
    /\ frames' = NoFrame
    /\ parser' = [parser EXCEPT !.failed_files = failed_files]
    /\ UNCHANGED <<sep, tree, files, txt_filenames, index, failed_files,
                   extracted, viewable, exported>>

\* parse_image_metadata after its loop: the pair it returns.
ParseImageReturn ==
    /\ pc = "image"
    /\ index = Len(files)
    /\ ret' = [ret EXCEPT !.image =
                 ReturnedPair(FinishImage([frames |-> frames, failed_files |-> failed_files]))]
    /\ prev' = [prev EXCEPT !.image = ret.image]
    /\ pc' = "idle"
    /\ frames' = NoFrame
    /\ UNCHANGED <<sep, tree, parser, files, txt_filenames, index, failed_files,
                   extracted, viewable, exported>>

\* parse_sinton_fmt_metadata, up to its loop.
ParseSintonStart ==
    /\ pc = "idle"
    /\ pc' = "sinton"
    /\ failed_files' = NewFailureList(failed_files)
    /\ files' = GetFilesFromFolders(parser.folder_locations, <<"m", "f", "r">>, FALSE)
    /\ txt_filenames' = GetFilesFromFolders(parser.folder_locations, <<"t", "x", "t">>, TRUE)
    /\ frames' = NoFrame
    /\ index' = 0
    /\ UNCHANGED <<sep, tree, parser, ret, prev, extracted, viewable, exported>>

\* One iteration of the loop of parse_sinton_fmt_metadata.
ParseSintonFile ==
    /\ pc = "sinton"
    /\ index < Len(files)
    /\ LET file == files[index + 1]
           acc == LoopStep([frames |-> frames, failed_files |-> failed_files],
                           index, file, SintonRecord(file, txt_filenames))
       IN  /\ frames' = acc.frames
           /\ failed_files' = acc.failed_files
    /\ index' = index + 1
    /\ UNCHANGED <<sep, tree, parser, pc, files, txt_filenames, ret, prev,
                   extracted, viewable, exported>>

\* parse_sinton_fmt_metadata after its loop: the pair it returns.
ParseSintonReturn ==
    /\ pc = "sinton"
    /\ index = Len(files)
    /\ ret' = [ret EXCEPT !.sinton =
                 ReturnedPair(FinishSinton([frames |-> frames, failed_files |-> failed_files],
                                           parser.arrays))]
    /\ prev' = [prev EXCEPT !.sinton = ret.sinton]
    /\ pc' = "idle"
    /\ frames' = NoFrame
    /\ UNCHANGED <<sep, tree, parser, files, txt_filenames, index, failed_files,
                   extracted, viewable, exported>>

Next ==
    \/ ParseImageStart
    \/ ParseImageFile
    \/ ParseImageReturn
    \/ ParseSintonStart
    \/ ParseSintonFile
    \/ ParseSintonReturn

Spec == Init /\ [][Next]_vars

\* ------------------------------------------------- the operations as a whole

\* The loop of a parse operation from iteration i on.
RECURSIVE ImageLoop(_, _, _)
ImageLoop(paths, i, acc) ==
    IF i = Len(paths) THEN acc
    ELSE ImageLoop(paths, i + 1, LoopStep(acc, i, paths[i + 1], ImageRecord(paths[i + 1])))

RECURSIVE SintonLoop(_, _, _, _)
SintonLoop(paths, txts, i, acc) ==
    IF i = Len(paths) THEN acc
    ELSE SintonLoop(paths, txts, i + 1,
                    LoopStep(acc, i, paths[i + 1], SintonRecord(paths[i + 1], txts)))

\* parse_image_metadata() on the instance self.
ParseImageMetadata(self) ==
    FinishImage(ImageLoop(GetFilesFromFolders(self.folder_locations, <<"j", "p", "g">>, FALSE),
                          0, [frames |-> NoFrame, failed_files |-> <<>>]))

\* parse_sinton_fmt_metadata() on the instance self.
ParseSintonFmtMetadata(self) ==
    FinishSinton(SintonLoop(GetFilesFromFolders(self.folder_locations, <<"m", "f", "r">>, FALSE),
                            GetFilesFromFolders(self.folder_locations, <<"t", "x", "t">>, TRUE),
                            0, [frames |-> NoFrame, failed_files |-> <<>>]),
                 self.arrays)

\* ------------------------------------------------------------ the exporter

\* f"Array[{len(x)}] - Mean: ..., Std: ...": the summary text of an array.
SummaryCell == StrCell(<<"A", "r", "r", "a", "y", "[", "]">>)

\* create_viewable_dataframe: in each array column, a cell that is a numpy
\* array is replaced by its summary; any other cell is left as it is.
CreateViewableDataframe(raw_data, array_columns) ==
    [isNone |-> FALSE, cols |-> raw_data.cols,
     rows |-> [i \in 1..Len(raw_data.rows) |->
                 [c \in raw_data.cols |->
                     IF c \in array_columns /\ raw_data.rows[i][c].k = "ndarray"
                     THEN SummaryCell
                     ELSE raw_data.rows[i][c]]]]

\* format_dataframe: a copy of the table whose numeric columns are rendered
\* with three decimals; the table passed in is not modified.
FormatDataframe(df) ==
    [isNone |-> FALSE, cols |-> df.cols,
     rows |-> [i \in 1..Len(df.rows) |->
                 [c \in df.cols |->
                     IF df.rows[i][c].k = "int"
                     THEN StrCell(df.rows[i][c].v \o <<".", "0", "0", "0">>)
                     ELSE df.rows[i][c]]]]

\* bool(df) of a pandas DataFrame, as "not df" and "if df:" evaluate it:
\* pandas raises ValueError (the truth value of a DataFrame is ambiguous).
TruthValue(df) == [raised |-> TRUE, value |-> FALSE]

\* One branch of main(): the viewable table is built, format_dataframe makes
\* its formatted copy, and the viewable table is written to output_file.
Written(data, array_columns, output_file) ==
    [f \in {output_file} |-> CreateViewableDataframe(data, array_columns)]

Formatted(data, array_columns, label) ==
    [f \in {label} |-> FormatDataframe(CreateViewableDataframe(data, array_columns))]

\* main() of create_dataframe.py.
Main ==
    LET self == NewParser(<<IvFolder, ElFolder>>, SqliteFilePath)
        image_data == ParseImageMetadata(self).table
        sinton_data == ParseSintonFmtMetadata(self).table
        image_truth == TruthValue(image_data)
        sinton_truth == TruthValue(sinton_data)
    IN  IF image_truth.raised \/ (~image_truth.value /\ sinton_truth.raised)
        THEN [called |-> TRUE, outcome |-> "ValueError", written |-> <<>>,
              formatted |-> <<>>]
        ELSE IF ~image_truth.value /\ ~sinton_truth.value
        THEN [called |-> TRUE, outcome |-> "no data", written |-> <<>>,
              formatted |-> <<>>]
        ELSE [called |-> TRUE, outcome |-> "returned",
              formatted |->
                Update(IF image_truth.value
                       THEN Formatted(image_data, {}, "image") ELSE <<>>,
                       IF sinton_truth.value
                       THEN Formatted(sinton_data, self.arrays, "sinton") ELSE <<>>),
              written |->
                Update(IF image_truth.value
                       THEN Written(image_data, {}, "el_image_data.csv") ELSE <<>>,
                       IF sinton_truth.value
                       THEN Written(sinton_data, self.arrays, "sinton_data.csv") ELSE <<>>)]

\* A call of extract_image_metadata on a file of the tree.
ExtractCall ==
    /\ \E i \in 1..Len(tree) :
          LET file == PathJoin(tree[i].dir, tree[i].name)
          IN  extracted' = [called |-> TRUE, file |-> file,
                            result |-> ExtractImageMetadata(file)]
    /\ UNCHANGED <<sep, tree, parser, pc, files, txt_filenames, index, frames,
                   failed_files, ret, prev, viewable, exported>>

\* create_viewable_dataframe(sinton_data, parser.arrays) on the table
\* parse_sinton_fmt_metadata() returns.
ViewSinton ==
    /\ viewable' = [called |-> TRUE,
                    table |-> CreateViewableDataframe(ParseSintonFmtMetadata(parser).table,
                                                      parser.arrays)]
    /\ UNCHANGED <<sep, tree, parser, pc, files, txt_filenames, index, frames,
                   failed_files, ret, prev, extracted, exported>>

\* A run of the exporter's main().
ExportMain ==
    /\ exported' = Main
    /\ UNCHANGED <<sep, tree, parser, pc, files, txt_filenames, index, frames,
                   failed_files, ret, prev, extracted, viewable>>

NextExport ==
    \/ ExtractCall
    \/ ViewSinton
    \/ ExportMain

SpecExport == Init /\ [][NextExport]_vars

\* ------------------------------------------------------------- properties

\* Whether extraction raises for the file at a path.
Raises(path) == FileAt(path).raises
Succeeds(path) == ~FileAt(path).raises

\* The number of rows of a running table (none while frames is None).
RowCount(df) == Len(df.rows)

\* The value of each parse operation's walk: the .jpg paths, the .mfr paths.
WalkOf(op) ==
    IF op = "image"
    THEN GetFilesFromFolders(FolderLocations, <<"j", "p", "g">>, FALSE)
    ELSE GetFilesFromFolders(FolderLocations, <<"m", "f", "r">>, FALSE)

Ops == {"image", "sinton"}

\* C1: in both parse operations, whatever files raise, the loop goes on to
\* the last file: after i iterations the failure list is the failing files
\* among the first i in walk order and the table has one row per file that
\* did not raise; the pair returned has the failing files of the whole walk
\* in walk order as its failure list and exactly one row, in walk order, for
\* each file that did not raise.
C1_EveryFileRowOrFailure ==
    /\ pc \in Ops =>
          /\ index <= Len(files)
          /\ failed_files = SelectSeq(SubSeq(files, 1, index), Raises)
          /\ RowCount(frames) = Len(SelectSeq(SubSeq(files, 1, index), Succeeds))
    /\ \A op \in Ops :
          ret[op].returned =>
             LET good == SelectSeq(WalkOf(op), Succeeds)
                 rows == ret[op].table.rows
             IN  /\ ret[op].failed_files = SelectSeq(WalkOf(op), Raises)
                 /\ Len(rows) = Len(good)
                 /\ \A i \in 1..Len(good) : rows[i]["filename"].v = FileName(good[i])

\* C1 witness: the image operation returned after its first file raised and
\* its second did not, and the raw-file operation returned after every file
\* of its walk raised.
C1_Witness ==
    /\ ret["image"].returned
    /\ Len(WalkOf("image")) = 2
    /\ Raises(WalkOf("image")[1])
    /\ Succeeds(WalkOf("image")[2])
    /\ Len(ret["image"].table.rows) = 1
    /\ ret["image"].failed_files = <<WalkOf("image")[1]>>
    /\ ret["sinton"].returned
    /\ Len(WalkOf("sinton")) = 1
    /\ ret["sinton"].failed_files = WalkOf("sinton")
    /\ ret["sinton"].table.rows = <<>>

\* The records of the raw files that did not raise, in walk order.
SintonRecords ==
    LET good == SelectSeq(WalkOf("sinton"), Succeeds)
        txts == GetFilesFromFolders(FolderLocations, <<"t", "x", "t">>, TRUE)
    IN  [i \in 1..Len(good) |-> SintonRecord(good[i], txts).map]

\* The records of the image files that did not raise, in walk order.
ImageRecords ==
    LET good == SelectSeq(WalkOf("image"), Succeeds)
    IN  [i \in 1..Len(good) |-> ImageRecord(good[i]).map]

KeysOf(records) == UNION {DOMAIN records[i] : i \in 1..Len(records)}

IsBlank(cell) == cell.k = "str" /\ Strip(cell.v, Whitespace) = <<>>

\* C2 (the claim as stated): in the table parse_sinton_fmt_metadata()
\* returns, a key absent from the record of at least one processed file, or a
\* non-array key whose value is blank in at least one record, is no column.
C2_MissingColumnsDropped ==
    ret["sinton"].returned =>
       \A c \in KeysOf(SintonRecords) :
          (\E i \in 1..Len(SintonRecords) :
              \/ c \notin DOMAIN SintonRecords[i]
              \/ (c \notin Arrays /\ IsBlank(SintonRecords[i][c])))
          => c \notin ret["sinton"].table.cols

\* C3: in the table parse_image_metadata() returns when a file succeeded, a
\* key of the image records is a column exactly when every record holds a
\* value for it, the kept cells are the records' values, and every row holds
\* the camera label; while the loop runs no column is dropped (the running
\* table has the union of the keys seen so far).
C3_ImageColumns ==
    /\ (ret["image"].returned /\ ret["image"].table.rows # <<>>) =>
          LET table == ret["image"].table
          IN  /\ Len(table.rows) = Len(ImageRecords)
              /\ \A c \in KeysOf(ImageRecords) :
                    c \in table.cols <=>
                       \A i \in 1..Len(ImageRecords) :
                          c \in DOMAIN ImageRecords[i] /\ ~IsNa(ImageRecords[i][c])
              /\ \A i \in 1..Len(table.rows) :
                    /\ "camera" \in table.cols
                    /\ table.rows[i]["camera"] = StrCell(<<"E", "L", "_", "C", "C", "D">>)
                    /\ \A c \in table.cols \cap KeysOf(ImageRecords) :
                          table.rows[i][c] = ImageRecords[i][c]
    /\ (pc = "image" /\ ~frames.isNone) =>
          frames.cols =
             UNION {DOMAIN ImageRecord(p).map :
                      p \in {files[j] : j \in {k \in 1..index : Succeeds(files[k])}}}

\* C3 witness: a table of two rows returned, the tag "Image Make" held by one
\* of the two records only.
C3_Witness ==
    /\ ret["image"].returned
    /\ Len(ret["image"].table.rows) = 2
    /\ "Image Make" \in DOMAIN ImageRecords[1]
    /\ "Image Make" \notin DOMAIN ImageRecords[2]
    /\ "Image Make" \notin ret["image"].table.cols

\* C4: a parse operation called again on the same instance over the same
\* files returns the pair it returned before.
C4_Idempotent ==
    \A op \in Ops : prev[op].returned => ret[op] = prev[op]

\* C4 witness: both operations returned twice, the image operation with a
\* row and a failure, the raw-file operation with a failure.
C4_Witness ==
    /\ \A op \in Ops : prev[op].returned /\ ret[op].failed_files # <<>>
    /\ ret["image"].table.rows # <<>>

\* The paths of the tree's files.
TreePaths == {PathJoin(tree[i].dir, tree[i].name) : i \in 1..Len(tree)}

\* C5 (the claim as stated): extract_image_metadata on a file that is
\* neither a .jpg nor a .tif returns an empty mapping and raises nothing.
C5_UnsupportedGivesEmptyMapping ==
    (/\ extracted.called
     /\ ~EndsWith(extracted.file, <<".", "j", "p", "g">>)
     /\ ~EndsWith(extracted.file, <<".", "t", "i", "f">>))
    => /\ ~extracted.result.raised
       /\ ~extracted.result.isNone
       /\ extracted.result.map = <<>>

\* C6 (the claim as stated): every .jpg and every .tif file of the tree is a
\* row or a failure of what parse_image_metadata() returns.
C6_BothImageTypesProcessed ==
    ret["image"].returned =>
       \A p \in TreePaths :
          (EndsWith(p, <<".", "j", "p", "g">>) \/ EndsWith(p, <<".", "t", "i", "f">>))
          => \/ \E i \in 1..Len(ret["image"].failed_files) : ret["image"].failed_files[i] = p
             \/ \E i \in 1..Len(ret["image"].table.rows) :
                   ret["image"].table.rows[i]["filename"].v = FileName(p)

\* C7 (the claim as stated): in the viewable table built from the table
\* parse_sinton_fmt_metadata() returns, every array column of every row
\* holds the summary text.
C7_ArraysSummarised ==
    viewable.called =>
       \A i \in 1..Len(viewable.table.rows) :
          \A a \in parser.arrays :
             /\ a \in viewable.table.cols
             /\ viewable.table.rows[i][a] = SummaryCell

\* The name of a raw file with its extension replaced by the text extension.
CompanionName(name) == SubSeq(name, 1, Len(name) - 4) \o <<".", "t", "x", "t">>

\* C8 (the claim as stated): the txt_file of a raw file's row is 'N/A'
\* exactly when the tree holds no text file with the raw file's base name,
\* and names that text file when it does.
C8_TxtFileIffCompanion ==
    ret["sinton"].returned =>
       \A i \in 1..Len(ret["sinton"].table.rows) :
          LET row == ret["sinton"].table.rows[i]
              raw == FileAt(row["filepath"].v)
              companion == \E j \in 1..Len(tree) : tree[j].name = CompanionName(raw.name)
          IN  /\ (row["txt_file"].v = <<"N", "/", "A">>) <=> ~companion
              /\ companion => row["txt_file"].v = CompanionName(raw.name)

\* C9 (the claim as stated): a run of main() in which a parse operation
\* returns a table with a row returns normally and has written each table
\* that has a row, unformatted, to its file.
C9_MainWritesTables ==
    LET image_data == ParseImageMetadata(parser).table
        sinton_data == ParseSintonFmtMetadata(parser).table
    IN  (exported.called /\ (image_data.rows # <<>> \/ sinton_data.rows # <<>>)) =>
           /\ exported.outcome = "returned"
           /\ image_data.rows # <<>> =>
                 /\ "el_image_data.csv" \in DOMAIN exported.written
                 /\ exported.written["el_image_data.csv"]
                       = CreateViewableDataframe(image_data, {})
           /\ sinton_data.rows # <<>> =>
                 /\ "sinton_data.csv" \in DOMAIN exported.written
                 /\ exported.written["sinton_data.csv"]
                       = CreateViewableDataframe(sinton_data, parser.arrays)

\* The elements of a list.
Elements(list) == {list[i] : i \in 1..Len(list)}

\* C10: the instance's fields stay as constructed (failed_files empty), and
\* the failure list a call returns holds, once each, only files of that
\* operation's walk that raise.
C10_FieldsUnchangedListsLocal ==
    /\ parser = NewParser(FolderLocations, SqliteFilePath)
    /\ parser.failed_files = <<>>
    /\ \A op \in Ops :
          ret[op].returned =>
             /\ Elements(ret[op].failed_files)
                   \subseteq {p \in Elements(WalkOf(op)) : Raises(p)}
             /\ Cardinality(Elements(ret[op].failed_files)) = Len(ret[op].failed_files)

\* C10 witness: each operation has returned a failure list that is not empty,
\* the image operation after the raw-file operation had returned and the
\* raw-file operation twice.
C10_Witness ==
    /\ ret["image"].returned
    /\ ret["image"].failed_files # <<>>
    /\ prev["sinton"].returned
    /\ ret["sinton"].failed_files # <<>>
    /\ parser.failed_files = <<>>

====
